---- MODULE Spec2Model ----
(***************************************************************************)
(* The p2p node of src/src/main.rs: main() builds an identity, a transport *)
(* stack (tcp, noise, yamux), a composite behaviour (identify, ping, mdns) *)
(* and a swarm, asks the swarm to listen and then consumes the swarm's     *)
(* event stream forever.                                                   *)
(*                                                                         *)
(* The swarm and the three protocol handlers are libp2p's: the program     *)
(* sees them only through the calls it makes on them and through the       *)
(* events swarm.select_next_some() hands back.  They are modelled as the   *)
(* environment: the results of the fallible calls and the next event are   *)
(* inputs, drawn from small sets.  Stdout is taken to be writable.         *)
(***************************************************************************)
EXTENDS Naturals, Sequences, FiniteSets

VARIABLES
    pc,             \* main's position
    local_key,      \* line 66
    local_peer_id,  \* line 67
    transport,      \* lines 77-81: the upgrade stages, in composition order
    behaviour,      \* lines 98-102: the fields of MyBehaviour
    swarm_calls,    \* the calls main has made on the swarm (listen_on, ...)
    cur,            \* the event select_next_some() returned, being matched
    out,            \* the lines printed so far
    log,            \* history: the events consumed so far, with the arm taken
    fatal,          \* the startup step that ended the process, or "none"
    produced,       \* history: the field of MyBehaviour that produced cur, and
                    \* the event as that field produced it
    attempts        \* the inbound connection attempts going through transport

vars == <<pc, local_key, local_peer_id, transport, behaviour, swarm_calls,
          cur, out, log, fatal, produced, attempts>>

----------------------------------------------------------------------------
(* Bounds and input sets                                                   *)

MaxEvents == 2
MaxPeers == 2
MaxAttempts == 2

Keys == {"k1", "k2"}
Peers == {"p1", "p2"}
Addrs == {"a1", "a2"}

NoKey == "nokey"
NoPeer == "nopeer"
NoEvent == [kind |-> "None"]
NoAttempt == [state |-> "none", next |-> 0, done |-> <<>>, error |-> <<>>]

\* Sequences over S of length at most n
SeqUpTo(S, n) == UNION {[1..k -> S] : k \in 0..n}

\* The (peer, address) pairs mDNS can observe: p1 at two addresses, p2 at one
Announced == {<<"p1", "a1">>, <<"p1", "a2">>, <<"p2", "a1">>}

\* The payload of mdns::Event::Discovered / Expired: Vec<(PeerId, Multiaddr)>
PeerLists == SeqUpTo(Announced, MaxPeers)

----------------------------------------------------------------------------
(* Identity                                                                *)

Public(k) == <<"pub", k>>

PeerIdFrom(pub) == <<"peer", pub[2]>>

----------------------------------------------------------------------------
(* Events                                                                  *)

IdentifyEvents ==
    [kind : {"Received", "Sent", "Pushed", "Error"}, peer : Peers]

PingEvents == [peer : Peers, result : {"Ok", "Failure"}]

MdnsEvents == [kind : {"Discovered", "Expired"}, peers : PeerLists]

FromIdentify(event) == [tag |-> "Identify", payload |-> event]

\* FromPing wrapping in the Identify variant (a copied impl left unedited)
FromPingAsIdentify(event) == [tag |-> "Identify", payload |-> event]

FromPing(event) == [tag |-> "Ping", payload |-> event]

FromMdns(event) == [tag |-> "Mdns", payload |-> event]

\* The events a field of MyBehaviour produces, in the field's own type
FieldEvents(field) ==
    CASE field = "identify" -> IdentifyEvents
      [] field = "ping" -> PingEvents
      [] field = "mdns" -> MdnsEvents

\* out_event = "MyBehaviourEvent": a field's event is converted by the From
\* impl of the field's event type
Into(field, event) ==
    CASE field = "identify" -> FromIdentify(event)
      [] field = "ping" -> FromPing(event)
      [] field = "mdns" -> FromMdns(event)

NoProduced == [field |-> "none"]

\* What each field of MyBehaviour can hand to the swarm, as a MyBehaviourEvent
MyBehaviourEvent(field) ==
    CASE field = "identify" -> {FromIdentify(e) : e \in IdentifyEvents}
      [] field = "ping" -> {FromPing(e) : e \in PingEvents}
      [] field = "mdns" -> {FromMdns(e) : e \in MdnsEvents}

\* The SwarmEvent kinds the loop does not name
OtherSwarmKinds ==
    {"ConnectionEstablished", "ConnectionClosed", "IncomingConnection",
     "IncomingConnectionError", "OutgoingConnectionError", "Dialing",
     "ExpiredListenAddr", "ListenerClosed", "ListenerError"}

SwarmEvents ==
    {[kind |-> "NewListenAddr", address |-> a] : a \in Addrs}
    \cup {[kind |-> k] : k \in OtherSwarmKinds}
    \cup {[kind |-> "Behaviour", ev |-> e] :
              e \in UNION {MyBehaviourEvent(f) : f \in {"identify", "ping", "mdns"}}}

----------------------------------------------------------------------------
(* Startup: main() up to the loop                                          *)

\* "/ip4/0.0.0.0/tcp/0", as its components
ListenLiteral == <<"ip4", "0.0.0.0", "tcp", "0">>

Protocols == {"ip4", "tcp"}

\* str::parse::<Multiaddr>: a sequence of /protocol/value pairs
ParseMultiaddr(s) ==
    IF /\ Len(s) % 2 = 0
       /\ \A i \in 1..Len(s) : (i % 2 = 1) => s[i] \in Protocols
    THEN [ok |-> TRUE,
          addr |-> [i \in 1..(Len(s) \div 2) |-> <<s[2 * i - 1], s[2 * i]>>]]
    ELSE [ok |-> FALSE, addr |-> <<>>]

Init ==
    /\ pc = "keygen"
    /\ local_key = NoKey
    /\ local_peer_id = NoPeer
    /\ transport = <<>>
    /\ behaviour = <<>>
    /\ swarm_calls = <<>>
    /\ cur = NoEvent
    /\ out = <<>>
    /\ log = <<>>
    /\ fatal = "none"
    /\ produced = NoProduced
    /\ attempts = [a \in 1..MaxAttempts |-> NoAttempt]

\* Lines 66-68: the keypair (no Result: it cannot fail), the peer id, its print
KeyGen ==
    /\ pc = "keygen"
    /\ \E k \in Keys :
          /\ local_key' = k
          /\ local_peer_id' = PeerIdFrom(Public(k))
          /\ out' = Append(out, <<"Local peer id", PeerIdFrom(Public(k))>>)
    /\ pc' = "noise"
    /\ UNCHANGED <<produced, attempts>>
    /\ UNCHANGED <<transport, behaviour, swarm_calls, cur, log, fatal>>

\* Line 71: noise::Config::new(&local_key).expect(..): an Err panics
NoiseConfig ==
    /\ pc = "noise"
    /\ \E ok \in BOOLEAN :
          IF ok
          THEN pc' = "transport" /\ fatal' = fatal
          ELSE pc' = "panicked" /\ fatal' = "noise"
    /\ UNCHANGED <<produced, attempts>>
    /\ UNCHANGED <<local_key, local_peer_id, transport, behaviour, swarm_calls,
                   cur, out, log>>

\* BuildTransport with the multiplexer composed before the authentication
BuildTransportMuxFirst ==
    /\ pc = "transport"
    /\ transport' = <<"tcp", "yamux", "noise">>
    /\ pc' = "behaviour"
    /\ UNCHANGED <<produced, attempts>>
    /\ UNCHANGED <<local_key, local_peer_id, behaviour, swarm_calls, cur, out,
                   log, fatal>>

\* Lines 77-81: tcp, then .authenticate(noise), then .multiplex(yamux)
BuildTransport ==
    /\ pc = "transport"
    /\ transport' = <<"tcp", "noise", "yamux">>
    /\ pc' = "behaviour"
    /\ UNCHANGED <<produced, attempts>>
    /\ UNCHANGED <<local_key, local_peer_id, behaviour, swarm_calls, cur, out,
                   log, fatal>>

\* Lines 84-107: identify and ping cannot fail; mdns::Behaviour::new(..)? can,
\* and its Err is returned from main
BuildSwarm ==
    /\ pc = "behaviour"
    /\ \E ok \in BOOLEAN :
          IF ok
          THEN /\ behaviour' = <<"identify", "ping", "mdns">>
               /\ pc' = "listen"
               /\ fatal' = fatal
          ELSE /\ behaviour' = behaviour
               /\ pc' = "failed"
               /\ fatal' = "mdns"
    /\ UNCHANGED <<produced, attempts>>
    /\ UNCHANGED <<local_key, local_peer_id, transport, swarm_calls, cur, out,
                   log>>

\* Line 110: swarm.listen_on("/ip4/0.0.0.0/tcp/0".parse()?)?
ListenOn ==
    /\ pc = "listen"
    /\ LET parsed == ParseMultiaddr(ListenLiteral) IN
       IF ~parsed.ok
       THEN pc' = "failed" /\ fatal' = "parse" /\ swarm_calls' = swarm_calls
       ELSE \E ok \in BOOLEAN :
               IF ok
               THEN /\ swarm_calls' = Append(swarm_calls, <<"listen_on", parsed.addr>>)
                    /\ pc' = "poll"
                    /\ fatal' = fatal
               ELSE /\ swarm_calls' = swarm_calls
                    /\ pc' = "failed"
                    /\ fatal' = "listen"
    /\ UNCHANGED <<produced, attempts>>
    /\ UNCHANGED <<local_key, local_peer_id, transport, behaviour, cur, out, log>>

----------------------------------------------------------------------------
(* The event loop, lines 113-136                                           *)

\* Line 114: swarm.select_next_some().await returns the next event
SelectNextSome ==
    /\ pc = "poll"
    /\ Len(log) < MaxEvents
    /\ \/ \E e \in SwarmEvents :
             /\ e.kind # "Behaviour"
             /\ cur' = e
             /\ produced' = NoProduced
       \/ \E i \in 1..Len(behaviour) : \E e \in FieldEvents(behaviour[i]) :
             /\ cur' = [kind |-> "Behaviour", ev |-> Into(behaviour[i], e)]
             /\ produced' = [field |-> behaviour[i], event |-> e]
    /\ pc' = "match"
    /\ UNCHANGED <<attempts, local_key, local_peer_id, transport, behaviour,
                   swarm_calls, out, log, fatal>>

\* The patterns of lines 116, 120, 126 and 130
IsNewListenAddr(e) == e.kind = "NewListenAddr"

\* IsMdnsDiscovered as the pattern MyBehaviourEvent::Mdns(_): any mDNS event
IsMdnsAny(e) ==
    /\ e.kind = "Behaviour"
    /\ e.ev.tag = "Mdns"

IsMdnsDiscovered(e) ==
    /\ e.kind = "Behaviour"
    /\ e.ev.tag = "Mdns"
    /\ e.ev.payload.kind = "Discovered"

IsIdentify(e) == e.kind = "Behaviour" /\ e.ev.tag = "Identify"

IsPing(e) == e.kind = "Behaviour" /\ e.ev.tag = "Ping"

\* The end of an arm: the event is dropped and the loop iterates
Consumed(arm) ==
    /\ log' = Append(log, [ev |-> cur, arm |-> arm])
    /\ cur' = NoEvent
    /\ pc' = "poll"

\* Lines 116-118
ArmNewListenAddr ==
    /\ pc = "match"
    /\ IsNewListenAddr(cur)
    /\ out' = Append(out, <<"Listening on", cur.address>>)
    /\ Consumed("NewListenAddr")
    /\ UNCHANGED <<produced, attempts>>
    /\ UNCHANGED <<local_key, local_peer_id, transport, behaviour, swarm_calls,
                   fatal>>

\* The peers the lines printed so far report as discovered
Reported(lines) ==
    {lines[j][2] : j \in {k \in 1..Len(lines) : lines[k][1] = "Discovered peer"}}

\* ArmMdnsDiscovered with the peers already reported left out
ArmMdnsDiscoveredDedups ==
    /\ pc = "match"
    /\ ~IsNewListenAddr(cur)
    /\ IsMdnsDiscovered(cur)
    /\ LET peers == SelectSeq(cur.ev.payload.peers,
                              LAMBDA pa : pa[1] \notin Reported(out)) IN
       out' = out \o [i \in 1..Len(peers) |->
                         <<"Discovered peer", peers[i][1], peers[i][2]>>]
    /\ Consumed("MdnsDiscovered")
    /\ UNCHANGED <<produced, attempts>>
    /\ UNCHANGED <<local_key, local_peer_id, transport, behaviour, swarm_calls,
                   fatal>>

\* ArmMdnsDiscovered with a dial of every discovered address added to the body
\* of the for loop
ArmMdnsDiscoveredDials ==
    /\ pc = "match"
    /\ ~IsNewListenAddr(cur)
    /\ IsMdnsDiscovered(cur)
    /\ LET peers == cur.ev.payload.peers IN
       /\ out' = out \o [i \in 1..Len(peers) |->
                            <<"Discovered peer", peers[i][1], peers[i][2]>>]
       /\ swarm_calls' = swarm_calls \o [i \in 1..Len(peers) |->
                                            <<"dial", peers[i][2]>>]
    /\ Consumed("MdnsDiscovered")
    /\ UNCHANGED <<produced, attempts>>
    /\ UNCHANGED <<local_key, local_peer_id, transport, behaviour, fatal>>

\* Lines 120-124: one line per (peer_id, addr) of the event, in its order
ArmMdnsDiscovered ==
    /\ pc = "match"
    /\ ~IsNewListenAddr(cur)
    /\ IsMdnsDiscovered(cur)
    /\ LET peers == cur.ev.payload.peers IN
       out' = out \o [i \in 1..Len(peers) |->
                         <<"Discovered peer", peers[i][1], peers[i][2]>>]
    /\ Consumed("MdnsDiscovered")
    /\ UNCHANGED <<produced, attempts>>
    /\ UNCHANGED <<local_key, local_peer_id, transport, behaviour, swarm_calls,
                   fatal>>

\* ArmIdentify with an identification error returned from main
ArmIdentifyReturns ==
    /\ pc = "match"
    /\ ~IsNewListenAddr(cur)
    /\ ~IsMdnsDiscovered(cur)
    /\ IsIdentify(cur)
    /\ out' = Append(out, <<"Identify event", cur.ev.payload>>)
    /\ log' = Append(log, [ev |-> cur, arm |-> "Identify"])
    /\ cur' = NoEvent
    /\ pc' = IF cur.ev.payload.kind = "Error" THEN "exited" ELSE "poll"
    /\ UNCHANGED <<produced, attempts>>
    /\ UNCHANGED <<local_key, local_peer_id, transport, behaviour, swarm_calls,
                   fatal>>

\* Lines 126-128
ArmIdentify ==
    /\ pc = "match"
    /\ ~IsNewListenAddr(cur)
    /\ ~IsMdnsDiscovered(cur)
    /\ IsIdentify(cur)
    /\ out' = Append(out, <<"Identify event", cur.ev.payload>>)
    /\ Consumed("Identify")
    /\ UNCHANGED <<produced, attempts>>
    /\ UNCHANGED <<local_key, local_peer_id, transport, behaviour, swarm_calls,
                   fatal>>

\* ArmPing with the connection closed on a ping failure
ArmPingCloses ==
    /\ pc = "match"
    /\ ~IsNewListenAddr(cur)
    /\ ~IsMdnsDiscovered(cur)
    /\ ~IsIdentify(cur)
    /\ IsPing(cur)
    /\ out' = Append(out, <<"Ping event", cur.ev.payload>>)
    /\ swarm_calls' = IF cur.ev.payload.result = "Failure"
                      THEN Append(swarm_calls,
                                  <<"disconnect_peer_id", cur.ev.payload.peer>>)
                      ELSE swarm_calls
    /\ Consumed("Ping")
    /\ UNCHANGED <<produced, attempts>>
    /\ UNCHANGED <<local_key, local_peer_id, transport, behaviour, fatal>>

\* ArmPing with a ping failure propagated out of main (a `?` on the result)
ArmPingPropagates ==
    /\ pc = "match"
    /\ ~IsNewListenAddr(cur)
    /\ ~IsMdnsDiscovered(cur)
    /\ ~IsIdentify(cur)
    /\ IsPing(cur)
    /\ out' = Append(out, <<"Ping event", cur.ev.payload>>)
    /\ log' = Append(log, [ev |-> cur, arm |-> "Ping"])
    /\ cur' = NoEvent
    /\ IF cur.ev.payload.result = "Failure"
       THEN pc' = "failed" /\ fatal' = "ping"
       ELSE pc' = "poll" /\ fatal' = fatal
    /\ UNCHANGED <<produced, attempts>>
    /\ UNCHANGED <<local_key, local_peer_id, transport, behaviour, swarm_calls>>

\* Lines 130-132
ArmPing ==
    /\ pc = "match"
    /\ ~IsNewListenAddr(cur)
    /\ ~IsMdnsDiscovered(cur)
    /\ ~IsIdentify(cur)
    /\ IsPing(cur)
    /\ out' = Append(out, <<"Ping event", cur.ev.payload>>)
    /\ Consumed("Ping")
    /\ UNCHANGED <<produced, attempts>>
    /\ UNCHANGED <<local_key, local_peer_id, transport, behaviour, swarm_calls,
                   fatal>>

\* ArmDefault as `_ => break`: an event the loop does not name ends the loop
ArmDefaultBreaks ==
    /\ pc = "match"
    /\ ~IsNewListenAddr(cur)
    /\ ~IsMdnsDiscovered(cur)
    /\ ~IsIdentify(cur)
    /\ ~IsPing(cur)
    /\ log' = Append(log, [ev |-> cur, arm |-> "Default"])
    /\ cur' = NoEvent
    /\ pc' = "exited"
    /\ UNCHANGED <<produced, attempts>>
    /\ UNCHANGED <<local_key, local_peer_id, transport, behaviour, swarm_calls,
                   out, fatal>>

\* Line 134: _ => {}
ArmDefault ==
    /\ pc = "match"
    /\ ~IsNewListenAddr(cur)
    /\ ~IsMdnsDiscovered(cur)
    /\ ~IsIdentify(cur)
    /\ ~IsPing(cur)
    /\ Consumed("Default")
    /\ UNCHANGED <<produced, attempts>>
    /\ UNCHANGED <<local_key, local_peer_id, transport, behaviour, swarm_calls,
                   out, fatal>>

Match ==
    \/ ArmNewListenAddr
    \/ ArmMdnsDiscovered
    \/ ArmIdentify
    \/ ArmPing
    \/ ArmDefault

Next ==
    \/ KeyGen
    \/ NoiseConfig
    \/ BuildTransport
    \/ BuildSwarm
    \/ ListenOn
    \/ SelectNextSome
    \/ Match

Spec == Init /\ [][Next]_vars

----------------------------------------------------------------------------
(* Connection attempts through the transport of lines 77-81.               *)
(* main never dials, so every attempt is one a remote peer makes on the    *)
(* listener of line 110.  Each stage of `transport` is applied to the      *)
(* output of the stage before it; whether a stage succeeds is an input.    *)
(* The transport handed to Swarm::new (line 106) is the whole chain, so    *)
(* the swarm, and through it the behaviour, gets a connection only as the  *)
(* output of the last stage.                                               *)

\* A remote peer connects to the listener: the first stage starts
Accept(a) ==
    /\ pc \in {"poll", "match"}
    /\ attempts[a].state = "none"
    /\ attempts' = [attempts EXCEPT ![a] =
                       [state |-> "upgrading", next |-> 1, done |-> <<>>,
                        error |-> <<>>]]
    /\ UNCHANGED <<pc, local_key, local_peer_id, transport, behaviour,
                   swarm_calls, cur, out, log, fatal, produced>>

\* The running stage succeeds: the next one starts on its output, and the
\* output of the last one goes to the swarm
StageCompletes(a) ==
    /\ attempts[a].state = "upgrading"
    /\ LET n == attempts[a].next IN
       attempts' = [attempts EXCEPT ![a] =
                       [state |-> IF n = Len(transport) THEN "handed"
                                                        ELSE "upgrading",
                        next |-> IF n = Len(transport) THEN 0 ELSE n + 1,
                        done |-> Append(attempts[a].done, transport[n]),
                        error |-> <<>>]]
    /\ UNCHANGED <<pc, local_key, local_peer_id, transport, behaviour,
                   swarm_calls, cur, out, log, fatal, produced>>

\* The running stage fails: the attempt ends with that stage's error
StageFails(a) ==
    /\ attempts[a].state = "upgrading"
    /\ attempts' = [attempts EXCEPT ![a] =
                       [state |-> "failed", next |-> 0,
                        done |-> attempts[a].done,
                        error |-> <<transport[attempts[a].next]>>]]
    /\ UNCHANGED <<pc, local_key, local_peer_id, transport, behaviour,
                   swarm_calls, cur, out, log, fatal, produced>>

NextTransport ==
    \/ KeyGen
    \/ NoiseConfig
    \/ BuildTransport
    \/ BuildSwarm
    \/ ListenOn
    \/ \E a \in 1..MaxAttempts : Accept(a)
    \/ \E a \in 1..MaxAttempts : StageCompletes(a)
    \/ \E a \in 1..MaxAttempts : StageFails(a)

SpecTransport == Init /\ [][NextTransport]_vars

----------------------------------------------------------------------------
(* Properties                                                              *)

\* The process has ended: main returned an Err, or panicked
Ended == {"failed", "panicked", "exited"}

\* The calls made on the swarm that open an outbound connection
Dials(calls) == {i \in 1..Len(calls) : calls[i][1] = "dial"}

\* The four event kinds the claims name as reacted to
Recognised(e) ==
    \/ e.kind = "NewListenAddr"
    \/ /\ e.kind = "Behaviour"
       /\ \/ e.ev.tag \in {"Identify", "Ping"}
          \/ e.ev.tag = "Mdns" /\ e.ev.payload.kind = "Discovered"

\* The number of lines the reaction to a recognised event prints: one per
\* (peer, address) pair of a peer-discovered event, one for any other
ReactionLines(e) ==
    IF e.kind = "Behaviour" /\ e.ev.tag = "Mdns"
    THEN Len(e.ev.payload.peers)
    ELSE 1

\* One iteration of the loop's match, as C8 describes it
C8_Step ==
    (pc = "match") =>
        /\ pc' = "poll"
        /\ cur' = NoEvent
        /\ Len(log') = Len(log) + 1
        /\ log'[Len(log')].ev = cur
        /\ IF Recognised(cur)
           THEN /\ log'[Len(log')].arm # "Default"
                /\ Len(out') = Len(out) + ReactionLines(cur)
                /\ SubSeq(out', 1, Len(out)) = out
           ELSE /\ log'[Len(log')].arm = "Default"
                /\ out' = out
                /\ swarm_calls' = swarm_calls

\* C8: the event loop reacts to new-listening-address, peer-discovered,
\* identification and liveness events; every other event kind is consumed and
\* dropped with no reaction (nothing printed, no call on the swarm); whatever
\* the event, some arm accepts it (the match never blocks) and the loop then
\* goes back to requesting the next event.
C8_LoopReactsOrDrops ==
    /\ [](pc = "match" => ENABLED Match)
    /\ [][C8_Step]_vars

\* C8's case: an event kind the loop does not name (a listener error) was
\* dropped without a trace, and the next event, a liveness one, was still
\* delivered and reacted to.
C8_Witness ==
    /\ pc = "poll"
    /\ Len(log) = 2
    /\ log[1].ev.kind = "ListenerError"
    /\ log[1].arm = "Default"
    /\ log[2].arm = "Ping"
    /\ Len(out) = 2

\* C9: no connection is dialed as a result of discovery: handling a
\* peer-discovered event leaves the set of outbound connection attempts (the
\* dial calls made on the swarm) as it was.
C9_DiscoveryNeverDials ==
    [][(pc = "match" /\ IsMdnsDiscovered(cur))
           => Dials(swarm_calls') = Dials(swarm_calls)]_vars

\* C9's case: a peer-discovered event carrying at least one (peer, address)
\* pair has been handled and reported, and no dial has been made.
C9_Witness ==
    /\ pc = "poll"
    /\ \E i \in 1..Len(log) :
          /\ log[i].arm = "MdnsDiscovered"
          /\ Len(log[i].ev.ev.payload.peers) >= 1
    /\ \E j \in 1..Len(out) : out[j][1] = "Discovered peer"
    /\ Dials(swarm_calls) = {}

\* C10 as stated: only identity-generation and listen-bind failures end the
\* process at startup (the signing of the noise static key with the identity
\* key is counted here with identity generation, the reading most favourable
\* to the claim).
C10_OnlyIdentityAndListenFatal ==
    (pc \in Ended) => fatal \in {"keygen", "noise", "listen"}

\* C10, amended: the startup steps that can end the process are the noise
\* configuration (line 71, a panic), the construction of the mDNS handler
\* (line 95) and the listen request (line 110); key generation cannot fail
\* and the listen address literal always parses.  The process ends only
\* before the loop: once an event has been delivered, whatever its kind
\* (connection errors, identification errors and liveness failures
\* included), the node is still running and the loop has made no call on the
\* swarm beyond its listen request, so no connection is touched by it.
C10_StartupFatalSteps ==
    /\ (pc \in Ended) =>
          /\ fatal \in {"noise", "mdns", "listen"}
          /\ log = <<>>
          /\ cur = NoEvent
    /\ (pc \notin Ended) => fatal = "none"
    /\ (Len(log) > 0 \/ cur # NoEvent) =>
          /\ pc \in {"poll", "match"}
          /\ Len(swarm_calls) = 1
          /\ swarm_calls[1][1] = "listen_on"

\* C10's case: the mDNS handler could not be built and main returned its
\* error, with the identity and the noise configuration already in place.
C10_Witness ==
    /\ pc = "failed"
    /\ fatal = "mdns"
    /\ local_key # NoKey
    /\ transport # <<>>

\* C12: once startup has succeeded (listening requested), the event loop has
\* no exit path: no step taken from inside the loop leaves the loop or ends
\* the process, whatever the event.
C12_LoopNeverExits ==
    [][(pc \in {"poll", "match"})
           => (pc' \in {"poll", "match"} /\ fatal' = "none")]_vars

\* C12's case: two error events in a row (a failed outbound connection, then
\* an identification error) have been consumed and the loop is asking for
\* the next event.
C12_Witness ==
    /\ pc = "poll"
    /\ Len(log) = 2
    /\ log[1].ev.kind = "OutgoingConnectionError"
    /\ IsIdentify(log[2].ev)
    /\ log[2].ev.ev.payload.kind = "Error"
    /\ fatal = "none"

\* The stages in the order C15 gives: raw stream, authentication, multiplexing
C15_Stages == <<"tcp", "noise", "yamux">>

\* s is an initial part of t
IsPrefix(s, t) == Len(s) <= Len(t) /\ SubSeq(t, 1, Len(s)) = s

C17_IsDiscovered(e) ==
    /\ e.kind = "Behaviour"
    /\ e.ev.tag = "Mdns"
    /\ e.ev.payload.kind = "Discovered"

\* C17: the reporting of discovery does not deduplicate: for one
\* peer-discovered event the loop prints one line per (peer, address) pair of
\* the event, each pair once, in the event's order, after what was printed
\* before and whether or not the peer was reported before.
C17_EveryPairReported ==
    [][(pc = "match" /\ C17_IsDiscovered(cur)) =>
          LET peers == cur.ev.payload.peers IN
          /\ Len(out') = Len(out) + Len(peers)
          /\ SubSeq(out', 1, Len(out)) = out
          /\ \A i \in 1..Len(peers) :
                out'[Len(out) + i] = <<"Discovered peer", peers[i][1], peers[i][2]>>
      ]_vars

\* C17's case: a first event reported p1 and p2, in that order; a later event
\* carried p1 again, at another address, and p1 was reported again.
C17_Witness ==
    /\ pc = "poll"
    /\ Len(log) = 2
    /\ C17_IsDiscovered(log[1].ev)
    /\ log[1].ev.ev.payload.peers = << <<"p1", "a1">>, <<"p2", "a1">> >>
    /\ C17_IsDiscovered(log[2].ev)
    /\ log[2].ev.ev.payload.peers = << <<"p1", "a2">> >>
    /\ Len(out) = 4
    /\ out[2] = <<"Discovered peer", "p1", "a1">>
    /\ out[3] = <<"Discovered peer", "p2", "a1">>
    /\ out[4] = <<"Discovered peer", "p1", "a2">>

\* The variant C18 gives for each handler, and the arms under that variant
C18_VariantOf(field) ==
    CASE field = "identify" -> "Identify"
      [] field = "ping" -> "Ping"
      [] field = "mdns" -> "Mdns"

C18_ArmsOf(field) ==
    CASE field = "identify" -> {"Identify"}
      [] field = "ping" -> {"Ping"}
      [] field = "mdns" -> {"MdnsDiscovered", "Default"}

\* C18: a behaviour event has one variant, and its tag names the handler that
\* produced it: an event of the identification handler is delivered as
\* Identify, one of the liveness handler as Ping, one of the discovery handler
\* as Mdns, with the payload as the handler produced it; and the loop reacts
\* to it under that handler's arm (or, for a discovery event, drops it), never
\* under another handler's.
C18_TagNamesHandler ==
    /\ []((cur.kind = "Behaviour") =>
             /\ produced.field \in {"identify", "ping", "mdns"}
             /\ cur.ev.tag = C18_VariantOf(produced.field)
             /\ cur.ev.payload = produced.event)
    /\ [][(pc = "match" /\ cur.kind = "Behaviour") =>
             log'[Len(log')].arm \in C18_ArmsOf(produced.field)]_vars

\* C18's case: an event the liveness handler produced was delivered, matched
\* under the Ping arm and printed with its payload.
C18_Witness ==
    /\ pc = "poll"
    /\ Len(log) >= 1
    /\ produced.field = "ping"
    /\ log[Len(log)].arm = "Ping"
    /\ log[Len(log)].ev.ev.payload = produced.event
    /\ out[Len(out)] = <<"Ping event", produced.event>>

\* C19: the event loop is a pure consumer: whatever the event, handling it
\* makes no call on the swarm (no dial, no close, no new listen) and leaves
\* the transport, the behaviour and the connection attempts as they were.
C19_LoopPureConsumer ==
    [][(pc = "match") =>
          /\ swarm_calls' = swarm_calls
          /\ transport' = transport
          /\ behaviour' = behaviour
          /\ attempts' = attempts]_vars

\* C19's case: a liveness failure and a new listening address have both been
\* handled and printed, and the only call ever made on the swarm is the
\* listen request of startup.
C19_Witness ==
    /\ pc = "poll"
    /\ Len(log) = 2
    /\ IsPing(log[1].ev)
    /\ log[1].ev.ev.payload.result = "Failure"
    /\ log[2].arm = "NewListenAddr"
    /\ Len(out) = 3
    /\ Len(swarm_calls) = 1
    /\ swarm_calls[1][1] = "listen_on"

\* C20: of the discovery handler's events only 'discovered' is reported: a
\* discovery event of any other kind (the expiry of a peer) takes the default
\* arm and nothing is printed for it, so no line ever reports a peer as gone.
C20_OnlyDiscoveredReported ==
    [][(/\ pc = "match"
        /\ cur.kind = "Behaviour"
        /\ cur.ev.tag = "Mdns"
        /\ cur.ev.payload.kind # "Discovered") =>
          /\ log'[Len(log')].arm = "Default"
          /\ out' = out]_vars

\* C20's case: p1 was reported as discovered, then the expiry of p1 was
\* delivered and dropped: the output still ends with the discovery of p1.
C20_Witness ==
    /\ pc = "poll"
    /\ Len(log) = 2
    /\ log[1].arm = "MdnsDiscovered"
    /\ log[1].ev.ev.payload.peers = << <<"p1", "a1">> >>
    /\ log[2].arm = "Default"
    /\ log[2].ev.kind = "Behaviour"
    /\ log[2].ev.ev.tag = "Mdns"
    /\ log[2].ev.ev.payload.kind = "Expired"
    /\ log[2].ev.ev.payload.peers = << <<"p1", "a1">> >>
    /\ out[Len(out)] = <<"Discovered peer", "p1", "a1">>
    /\ Len(out) = 2

====
